---------------------------- MODULE Spec2Model ----------------------------
(***************************************************************************)
(* Model of the phenology backend: the polygon generator                   *)
(* (utils/poligon.py), the site clustering driver (utils/convertData.py)   *)
(* and the area endpoints (routes/endpoints/areas.py) over the relational  *)
(* store declared in models/.                                              *)
(*                                                                         *)
(* Three specifications share the variables:                               *)
(*   SpecPoly  - one call of generate_polygon on a bounded input;          *)
(*   Spec      - the store under create_area, delete_area and the          *)
(*               clustering driver, one step per commit;                   *)
(*   SpecRead  - get_area and chat_about_area over a populated store.      *)
(***************************************************************************)
EXTENDS Integers, Sequences, FiniteSets, TLC

VARIABLES
    \* ---- generate_polygon call (utils/poligon.py)
    g_points,       \* the argument `points`
    g_site_point,   \* the argument `site_point` (None when not supplied)
    g_result,       \* the returned vertex list
    g_warned,       \* whether warnings.warn was called
    g_hull,         \* whether ConvexHull was called
    g_pc,           \* "idle" | "call" | "done" | "raised"
    \* ---- points_in_circle call (utils/poligon.py)
    c_points,       \* the argument `points`
    c_center,       \* the argument `center`
    c_radius,       \* the argument `radius`, in metres
    c_result,       \* the returned list
    c_pc,           \* "idle" | "call" | "done"
    \* ---- the committed relational store (models/)
    areas,          \* ids of the rows of table areas
    next_area_id,   \* the serial that allocates Area.id
    coords,         \* table area_coordinates, in physical row order
    plants,         \* table plants: id -> [site_id, area_id]
    observations,   \* table observations, in physical row order
    descriptions,   \* areas.description: area id -> text ("" is NULL)
    api_key,        \* settings.OPENAI_API_KEY
    \* ---- the clustering script (utils/convertData.py, lines 51-86)
    d_pc,           \* "idle" | "loop" | "coords" | "plants" | "done" | "failed"
    d_rows,         \* plants_sql: the plant -> site snapshot of lines 54-58
    d_todo,         \* site ids whose group is still to be processed
    d_group,        \* site id of the group being materialized (NULL: none)
    d_polygon,      \* polygon_coords of the group being materialized
    d_new_area,     \* new_area.id of the group being materialized (NULL: none)
    d_writes,       \* plant id -> number of times this run has set its area_id
    \* ---- a second run of the clustering script, as a record of the same
    \*      locals: pc, rows, todo, group, polygon, new_area
    d2,
    \* ---- GET /areas/{area_id} requests in progress: request id ->
    \*      [pc, area, summary] ("idle" | "llm" | "done")
    requests,
    \* ---- the outcome of the latest request or script step
    last

gvars == <<g_points, g_site_point, g_result, g_warned, g_hull, g_pc>>
store == <<areas, next_area_id, coords, plants, observations,
          descriptions>>
dvars == <<d_pc, d_rows, d_todo, d_group, d_polygon, d_new_area,
           d_writes>>

cvars == <<c_points, c_center, c_radius, c_result, c_pc>>

vars == <<gvars, cvars, store, dvars, d2, requests, api_key, last>>

(***************************************************************************)
(* Bounds of the model.                                                    *)
(***************************************************************************)
\* latitudes and longitudes range over 0..GridMax
GridMax == 2
\* longest argument list handed to generate_polygon
MaxPts == 4
\* sites and plants ingested before the clustering loop runs
NSites == 2
NPlants == 4
\* POST /areas/ requests served
MaxApiAreas == 1
\* longest coordinate list a client posts, and the most rows that table
\* area_coordinates holds after a client's post
MaxApiCoords == 2
\* months (from January 2023 on) over which a plant was observed
NMonths == 13
\* observations of the plant whose history is drawn freely
MaxObs == 3
\* most messages of a conversation_history a client posts
MaxHistory == 2
\* longest list passed to points_in_circle
MaxCirclePts == 2
\* GET /areas/{area_id} requests that the server handles at the same time
NRequests == 2

(***************************************************************************)
(* Values.                                                                 *)
(***************************************************************************)
\* Python's None for an optional point: the empty tuple
None == <<>>
\* SQL NULL in an integer column (ids start at 1)
NULL == 0

\* an API key, by what the code reads of it: its first three characters
\* and its length; the unset key (None or "") has length 0
NoKey == [prefix |-> "", len |-> 0]
Keys == {NoKey, [prefix |-> "pk-", len |-> 51],
         [prefix |-> "sk-", len |-> 10], [prefix |-> "sk-", len |-> 51]}

Points == (0..GridMax) \X (0..GridMax)

\* float('nan') as a coordinate: a value off the grid
NaN == GridMax + 1
IsNan(p) == p[1] = NaN \/ p[2] = NaN

\* a point with a coordinate that is not a number
NanPoint == <<NaN, 0>>

\* position of a point in the lexicographic order of (latitude, longitude)
PointLeq(p, q) == p[1] < q[1] \/ (p[1] = q[1] /\ p[2] <= q[2])

ToSet(s) == {s[i] : i \in DOMAIN s}

\* every listing of the finite set S, each element once
RECURSIVE Perms(_)
Perms(S) ==
    IF S = {} THEN {<<>>}
    ELSE UNION {{<<x>> \o p : p \in Perms(S \ {x})} : x \in S}

\* the listing of S in lexicographic order
RECURSIVE SortedList(_)
SortedList(S) ==
    IF S = {} THEN <<>>
    ELSE LET m == CHOOSE p \in S : \A q \in S : PointLeq(p, q)
         IN  <<m>> \o SortedList(S \ {m})

\* the argument lists of length n, listed in non-decreasing point order:
\* line 20 of poligon.py turns the argument into a set, so neither the
\* order nor the multiplicity of the argument reaches the rest of the call.
\* A point that holds a NaN occurs at most once (two NaN objects are never
\* equal, so such points are not duplicates of each other)
RECURSIVE ArgLists(_)
ArgLists(n) ==
    IF n = 0 THEN {<<>>}
    ELSE UNION {{Append(s, p) : p \in {q \in Points \cup {NanPoint} :
                                    \/ Len(s) = 0
                                    \/ /\ PointLeq(s[Len(s)], q)
                                       /\ IsNan(q) => s[Len(s)] # q}}
                : s \in ArgLists(n - 1)}

\* the anchors a caller supplies: none, or a site's own location
Anchors == {None} \cup {<<i, i>> : i \in 0..GridMax}

(***************************************************************************)
(* utils/poligon.py : generate_polygon                                     *)
(***************************************************************************)
\* z-component of (q - p) x (r - p): > 0 when r is left of the ray p -> q
Cross(p, q, r) ==
    (q[1] - p[1]) * (r[2] - p[2]) - (q[2] - p[2]) * (r[1] - p[1])

\* r lies strictly inside the segment p-q (p, q, r collinear)
Between(p, r, q) ==
    (r[1] - p[1]) * (q[1] - r[1]) + (r[2] - p[2]) * (q[2] - r[2]) > 0

\* Qhull cannot build an initial simplex: every point on one line
AllCollinear(S) == \A p \in S, q \in S, r \in S : Cross(p, q, r) = 0

LexMin(S) == CHOOSE p \in S : \A q \in S : PointLeq(p, q)

\* the hull vertex that follows vertex p counterclockwise
NextHullVertex(S, p) ==
    CHOOSE q \in S \ {p} :
        \A r \in S \ {p, q} :
            Cross(p, q, r) > 0 \/ (Cross(p, q, r) = 0 /\ Between(p, r, q))

RECURSIVE HullWalk(_, _, _, _)
HullWalk(S, start, p, acc) ==
    LET q == NextHullVertex(S, p)
    IN  IF q = start THEN acc ELSE HullWalk(S, start, q, Append(acc, q))

\* scipy.spatial.ConvexHull(pts).vertices for 2-D input: the extreme points
\* in counterclockwise order (here: starting at the lexicographic minimum)
ConvexHullCCW(S) == HullWalk(S, LexMin(S), LexMin(S), <<LexMin(S)>>)

Rotate(s, k) == [i \in 1..Len(s) |-> s[((i - 1 + k) % Len(s)) + 1]]

\* a mutation of DistinctLists: duplicates are kept
DistinctListsKeepDuplicates(points) == {points}

\* points = list(set(points)): the distinct points, in the iteration
\* order of a Python set, which the language leaves open
DistinctLists(points) == Perms(ToSet(points))

\* a mutation of Fallback: the anchor only when there is no point at all
FallbackPointsFirst(site_point, points) ==
    IF points # <<>> THEN points ELSE <<site_point>>

\* return [site_point] if site_point else points
Fallback(site_point, points) ==
    IF site_point # None THEN <<site_point>> ELSE points

\* a mutation of HullVertices: every deduplicated point, not the hull's
HullVerticesAllPoints(S, k) == Rotate(SortedList(S), k % Cardinality(S))

\* [tuple(pts[v]) for v in hull.vertices]: the hull depends on the set of
\* points only; the vertex at which Qhull's counterclockwise walk starts
\* depends on the order of pts, which is open: rotation k
HullVertices(S, k) ==
    LET hull == ConvexHullCCW(S)
    IN  Rotate(hull, k % Len(hull))

\* len(points) < 3: the fallback, no hull computation (the cardinality
\* conjunct is implied by the length test and only spares enumerating the
\* listings of larger sets)
GP_Degenerate ==
    /\ g_pc = "call"
    /\ Cardinality(ToSet(g_points)) < 3
    /\ \E pts \in DistinctLists(g_points) :
        /\ Len(pts) < 3
        /\ g_result' = Fallback(g_site_point, pts)
    /\ g_pc' = "done"
    /\ UNCHANGED <<g_points, g_site_point, g_warned, g_hull>>
    /\ UNCHANGED <<store, dvars, api_key, requests, d2, cvars, last>>

\* ConvexHull succeeds
GP_Hull ==
    /\ g_pc = "call"
    /\ LET S == ToSet(g_points)
       IN  /\ Cardinality(S) >= 3
           /\ \A p \in S : ~IsNan(p)
           /\ ~AllCollinear(S)
           /\ \E k \in 0..(Cardinality(S) - 1) :
                g_result' = HullVertices(S, k)
    /\ g_hull' = TRUE
    /\ g_pc' = "done"
    /\ UNCHANGED <<g_points, g_site_point, g_warned>>
    /\ UNCHANGED <<store, dvars, api_key, requests, d2, cvars, last>>

\* a mutation of GP_QhullError: the fallback without the warning
GP_QhullErrorSilent ==
    /\ g_pc = "call"
    /\ \A p \in ToSet(g_points) : ~IsNan(p)
    /\ AllCollinear(ToSet(g_points))
    /\ \E pts \in DistinctLists(g_points) :
        /\ Len(pts) >= 3
        /\ g_result' = Fallback(g_site_point, pts)
    /\ g_hull' = TRUE
    /\ g_pc' = "done"
    /\ UNCHANGED <<g_points, g_site_point, g_warned>>
    /\ UNCHANGED <<store, dvars, api_key, requests, d2, cvars, last>>

\* ConvexHull raises QhullError: warn, then the fallback
GP_QhullError ==
    /\ g_pc = "call"
    /\ \A p \in ToSet(g_points) : ~IsNan(p)
    /\ AllCollinear(ToSet(g_points))
    /\ \E pts \in DistinctLists(g_points) :
        /\ Len(pts) >= 3
        /\ g_result' = Fallback(g_site_point, pts)
    /\ g_warned' = TRUE
    /\ g_hull' = TRUE
    /\ g_pc' = "done"
    /\ UNCHANGED <<g_points, g_site_point>>
    /\ UNCHANGED <<store, dvars, api_key, requests, d2, cvars, last>>

\* ConvexHull raises an error that is not a QhullError (its ValueError
\* "Points cannot contain NaN"): line 28 does not catch it, the call raises
GP_ValueError ==
    /\ g_pc = "call"
    /\ Cardinality(ToSet(g_points)) >= 3
    /\ \E p \in ToSet(g_points) : IsNan(p)
    /\ g_hull' = TRUE
    /\ g_pc' = "raised"
    /\ UNCHANGED <<g_points, g_site_point, g_result, g_warned>>
    /\ UNCHANGED <<store, dvars, api_key, requests, d2, cvars, last>>

\* the argument lists of a second call on the same set of distinct points:
\* the points once each, or with the first of them given twice
SameSetLists(S) ==
    LET l == SortedList(S)
    IN  {l} \cup {<<l[1]>> \o l : x \in {y \in S : /\ Len(l) < MaxPts
                                                  /\ ~IsNan(l[1])}}

\* the caller keeps the vertices returned for a list of distinct points and
\* calls generate_polygon again on the same set of points, as the
\* clustering loop calls it: without anchor (utils/convertData.py, line 70).
\* An argument list stands for every ordering of it, so the second list
\* may be the first in another order
GP_CallAgain ==
    /\ g_pc = "done"
    /\ last.op = "none"
    /\ g_site_point = None
    /\ g_points = SortedList(ToSet(g_points))
    /\ last' = [op |-> "generate_polygon", points |-> g_points,
                site_point |-> g_site_point, result |-> g_result]
    /\ g_points' \in SameSetLists(ToSet(g_points))
    /\ g_result' = <<>>
    /\ g_warned' = FALSE
    /\ g_hull' = FALSE
    /\ g_pc' = "call"
    /\ UNCHANGED <<g_site_point, store, dvars, api_key, requests, d2, cvars>>

(***************************************************************************)
(* utils/poligon.py : haversine, points_in_circle                          *)
(***************************************************************************)
\* haversine(lat1, 0, lat2, dlon) in metres, rounded, for whole degrees
\* 0..3: HaversineTable[lat1 + 1][lat2 + 1][dlon + 1] (lines 7-13 with
\* R = 6371000; the value depends on the longitudes by |lon2 - lon1| only)
HaversineTable ==
    <<
      <<<<0, 111195, 222390, 333585>>,
        <<111195, 157249, 248629, 351613>>,
        <<222390, 248629, 314475, 400863>>,
        <<333585, 351613, 400863, 471652>>>>,
      <<<<111195, 157249, 248629, 351613>>,
        <<0, 111178, 222356, 333534>>,
        <<111195, 157225, 248569, 351517>>,
        <<222390, 248607, 314403, 400736>>>>,
      <<<<222390, 248629, 314475, 400863>>,
        <<111195, 157225, 248569, 351517>>,
        <<0, 111127, 222254, 333382>>,
        <<111195, 157178, 248448, 351324>>>>,
      <<<<333585, 351613, 400863, 471652>>,
        <<222390, 248607, 314403, 400736>>,
        <<111195, 157178, 248448, 351324>>,
        <<0, 111043, 222085, 333128>>>>
    >>

\* the distance that is not a number (distances are never negative)
NanMetres == 0 - 1

\* lines 6-13: a NaN coordinate makes every term NaN
haversine(lat1, lon1, lat2, lon2) ==
    IF NaN \in {lat1, lon1, lat2, lon2} THEN NanMetres
    ELSE HaversineTable[lat1 + 1][lat2 + 1]
            [(IF lon1 <= lon2 THEN lon2 - lon1 ELSE lon1 - lon2) + 1]

\* a mutation of FloatLeq: the boundary is excluded
FloatLess(d, r) == d # NanMetres /\ d < r

\* d <= r on floats: every comparison with NaN is False
FloatLeq(d, r) == d # NanMetres /\ d <= r

\* lines 15-17: the list comprehension builds a new list from the points
\* that pass the test, in the order of the argument
points_in_circle(points, center, radius) ==
    SelectSeq(points,
              LAMBDA p : FloatLeq(haversine(p[1], p[2], center[1], center[2]),
                                  radius))

\* the call: the argument list is only read
PointsInCircle ==
    /\ c_pc = "call"
    /\ c_result' = points_in_circle(c_points, c_center, c_radius)
    /\ c_pc' = "done"
    /\ last' = [op |-> "points_in_circle", points |-> c_points]
    /\ UNCHANGED <<c_points, c_center, c_radius>>
    /\ UNCHANGED <<gvars, store, dvars, api_key, requests, d2>>

\* the store and the script when no request and no script is modelled
EmptyStore ==
    /\ areas = {}
    /\ next_area_id = 1
    /\ coords = <<>>
    /\ plants = <<>>
    /\ observations = <<>>
    /\ descriptions = [a \in {} |-> ""]

\* the locals of a script process that has not started
IdleRun ==
    [pc |-> "idle", rows |-> <<>>, todo |-> <<>>, group |-> NULL,
     polygon |-> <<>>, new_area |-> NULL]

DriverIdle ==
    /\ d2 = IdleRun
    /\ d_pc = "idle"
    /\ d_rows = <<>>
    /\ d_todo = <<>>
    /\ d_group = NULL
    /\ d_polygon = <<>>
    /\ d_new_area = NULL
    /\ d_writes = <<>>

NoCall ==
    /\ g_points = <<>>
    /\ g_site_point = None
    /\ g_result = <<>>
    /\ g_warned = FALSE
    /\ g_hull = FALSE
    /\ g_pc = "idle"

RequestIds == 1..NRequests

\* a worker that has not taken a request
IdleRequest == [pc |-> "idle", area |-> NULL, summary |-> <<>>]

NoRequest == requests = [r \in RequestIds |-> IdleRequest]

NoCircle ==
    /\ c_points = <<>>
    /\ c_center = <<0, 0>>
    /\ c_radius = 0
    /\ c_result = <<>>
    /\ c_pc = "idle"

InitPoly ==
    /\ g_points \in UNION {ArgLists(n) : n \in 0..MaxPts}
    /\ g_site_point \in Anchors
    /\ g_result = <<>>
    /\ g_warned = FALSE
    /\ g_hull = FALSE
    /\ g_pc = "call"
    /\ NoCircle
    /\ NoRequest
    /\ EmptyStore
    /\ DriverIdle
    /\ api_key = NoKey
    /\ last = [op |-> "none"]

NextPoly ==
    \/ GP_Degenerate
    \/ GP_Hull
    \/ GP_QhullError
    \/ GP_ValueError
    \/ GP_CallAgain

SpecPoly == InitPoly /\ [][NextPoly]_vars

\* radius_m of utils/convertData.py, line 59: 1 km
radius_m == 1000

\* the lists of at most n points, in any order and with repetitions
RECURSIVE PointLists(_)
PointLists(n) ==
    IF n = 0 THEN {<<>>}
    ELSE PointLists(n - 1)
         \cup {Append(s, p) : s \in {t \in PointLists(n - 1) : Len(t) = n - 1},
                              p \in Points \cup {NanPoint}}

\* the radii: none, 1 km, and the distances from (0, 0) to (0, 1) and to
\* (1, 1), which put points exactly on the boundary
Radii == {0, radius_m, haversine(0, 0, 0, 1), haversine(0, 0, 1, 1)}

InitCircle ==
    /\ c_points \in PointLists(MaxCirclePts)
    /\ c_center \in Anchors \ {None}
    /\ c_radius \in Radii
    /\ c_result = <<>>
    /\ c_pc = "call"
    /\ NoCall
    /\ NoRequest
    /\ EmptyStore
    /\ DriverIdle
    /\ api_key = NoKey
    /\ last = [op |-> "none"]

NextCircle == PointsInCircle

SpecCircle == InitCircle /\ [][NextCircle]_vars

(***************************************************************************)
(* The store after ingestion (utils/convertData.py, lines 21-50): sites    *)
(* and plants exist, every plant has area_id NULL.  All plants of a site   *)
(* share the site's location (the join of lines 54-58).                    *)
(***************************************************************************)
SiteIds == 1..NSites
PlantIds == 1..NPlants
\* the script creates at most one Area per site
AreaIds == 1..(NSites + MaxApiAreas)

\* sites.latitude, sites.longitude of site s
SiteLoc(s) == <<(s - 1) % (GridMax + 1), (s - 1) % (GridMax + 1)>>

\* the ways NPlants plants are spread over the sites: plant ids in site
\* order, every site with a plant, no site with more plants than the site
\* before it
PlantTables ==
    {t \in [PlantIds -> [site_id : SiteIds, area_id : {NULL}]] :
        /\ \A i \in PlantIds, j \in PlantIds :
            i <= j => t[i].site_id <= t[j].site_id
        /\ \A s \in SiteIds : \E p \in PlantIds : t[p].site_id = s
        /\ \A s \in SiteIds \ {1} :
            Cardinality({p \in PlantIds : t[p].site_id = s})
                <= Cardinality({p \in PlantIds : t[p].site_id = s - 1})}

\* rows of area_coordinates that belong to area a, in physical order
CoordsOf(t, a) == SelectSeq(t, LAMBDA c : c.area_id = a)

\* ids of the plants whose area_id is a
MembersOf(pl, a) == {p \in DOMAIN pl : pl[p].area_id = a}

(***************************************************************************)
(* routes/endpoints/areas.py : create_area                                 *)
(***************************************************************************)
\* the request bodies: AreaCreate.coordinates, a list of AreaCoordinateBase
\* (latitude, longitude, order) that pydantic checks for type only
ApiCoordinate ==
    [latitude : {0}, longitude : {0}, order : {0, 1}]

ApiCoordLists == UNION {[1..n -> ApiCoordinate] : n \in 0..MaxApiCoords}

\* lines 39-46: one AreaCoordinate per posted coordinate, order as posted
ApiRows(a, coordinates) ==
    [i \in 1..Len(coordinates) |->
        [area_id |-> a, latitude |-> coordinates[i].latitude,
         longitude |-> coordinates[i].longitude,
         order |-> coordinates[i].order]]

\* Area rows the script has created so far: one per group it has taken
ScriptCreated ==
    (IF d_pc = "idle" THEN 0
     ELSE Cardinality({d_rows[p] : p \in DOMAIN d_rows}) - Len(d_todo))
    + (IF d2.pc = "idle" THEN 0
       ELSE Cardinality({d2.rows[p] : p \in DOMAIN d2.rows}) - Len(d2.todo))

\* POST /areas/ : the Area and its coordinates are flushed and committed in
\* one transaction (lines 34-48)
create_area(coordinates) ==
    /\ (next_area_id - 1) - ScriptCreated < MaxApiAreas
    /\ Len(coords) + Len(coordinates) <= MaxApiCoords
    /\ areas' = areas \cup {next_area_id}
    /\ next_area_id' = next_area_id + 1
    /\ coords' = coords \o ApiRows(next_area_id, coordinates)
    /\ last' = [op |-> "create_area", status |-> 201, area |-> next_area_id]
    /\ descriptions' = [a \in areas' |-> IF a \in areas THEN descriptions[a] ELSE ""]
    /\ UNCHANGED <<plants, observations, dvars, gvars, api_key, requests, d2, cvars>>

(***************************************************************************)
(* routes/endpoints/areas.py : list_areas                                  *)
(***************************************************************************)
\* Area.coordinates as the ORM loads it: models/area.py line 11 declares
\* the relationship without order_by, so the rows of the area come in the
\* order the store returns them
LoadCoordinates(t, a) == CoordsOf(t, a)

\* GET /areas/ : every Area with its coordinates (lines 63-67)
list_areas ==
    /\ last' = [op |-> "list_areas", status |-> 200,
                body |-> [a \in areas |-> LoadCoordinates(coords, a)]]
    /\ UNCHANGED <<store, dvars, gvars, api_key, requests, d2, cvars>>

(***************************************************************************)
(* routes/endpoints/areas.py : delete_area                                 *)
(***************************************************************************)
\* a mutation of DetachPlants: the member plants are deleted with the area
DetachPlantsByDeleting(pl, a) ==
    [p \in {q \in DOMAIN pl : pl[q].area_id # a} |-> pl[p]]

\* line 187: UPDATE plants SET area_id = NULL WHERE area_id = :area_id
DetachPlants(pl, a) ==
    [p \in DOMAIN pl |->
        IF pl[p].area_id = a THEN [pl[p] EXCEPT !.area_id = NULL] ELSE pl[p]]

\* a mutation of CascadeCoordinates: the coordinates outlive their area
CascadeCoordinatesKept(t, a) == t

\* line 189 with models/area.py line 11 (cascade="all, delete-orphan"):
\* deleting the Area deletes its AreaCoordinate rows
CascadeCoordinates(t, a) == SelectSeq(t, LAMBDA c : c.area_id # a)

\* DELETE /areas/{area_id} on a missing area: 404, nothing changes
delete_area_404(area_id) ==
    /\ area_id \notin areas
    /\ last' = [op |-> "delete_area", status |-> 404]
    /\ UNCHANGED <<store, dvars, gvars, api_key, requests, d2, cvars>>

\* DELETE /areas/{area_id} on an existing area (lines 181-192)
delete_area(area_id) ==
    /\ area_id \in areas
    /\ plants' = DetachPlants(plants, area_id)
    /\ coords' = CascadeCoordinates(coords, area_id)
    /\ areas' = areas \ {area_id}
    /\ last' = [op |-> "delete_area", status |-> 204, area |-> area_id,
                members |-> MembersOf(plants, area_id),
                ncoords |-> Len(CoordsOf(coords, area_id))]
    /\ descriptions' = [a \in areas' |-> descriptions[a]]
    /\ UNCHANGED <<next_area_id, observations, dvars, gvars, api_key, requests, d2, cvars>>

(***************************************************************************)
(* utils/convertData.py, lines 51-86: the site clustering loop.  One       *)
(* action per commit: the script commits three times per group.            *)
(***************************************************************************)
\* the listing of a set of integers in increasing order
RECURSIVE SortedInts(_)
SortedInts(S) ==
    IF S = {} THEN <<>>
    ELSE LET m == CHOOSE x \in S : \A y \in S : x <= y
         IN  <<m>> \o SortedInts(S \ {m})

\* plant ids of site s in the snapshot rows
GroupPlants(rows, s) == {p \in DOMAIN rows : rows[p] = s}

\* a mutation of GroupPoints: the location of another site
GroupPointsOfNextSite(rows, s) ==
    [i \in 1..Cardinality(GroupPlants(rows, s)) |-> SiteLoc((s % NSites) + 1)]

\* line 64: points = list(zip(group["latitude"], group["longitude"]))
GroupPoints(rows, s) ==
    [i \in 1..Cardinality(GroupPlants(rows, s)) |-> SiteLoc(s)]

\* the lists generate_polygon(points) can return when it is called without
\* site_point (utils/poligon.py, lines 19-30): the fallback on fewer than 3
\* distinct points, the hull, or the fallback after QhullError
GeneratePolygon(points) ==
    {Fallback(None, pts) : pts \in
        {l \in DistinctLists(points) : Len(l) < 3}}
    \cup
    {HullVertices(ToSet(points), k) : k \in
        {j \in 0..(Len(points) - 1) :
            Cardinality(ToSet(points)) >= 3 /\ ~AllCollinear(ToSet(points))}}
    \cup
    {Fallback(None, pts) : pts \in
        {l \in DistinctLists(points) :
            Len(l) >= 3 /\ AllCollinear(ToSet(points))}}

\* lines 66-70: fewer than 3 points are taken as they are; otherwise
\* generate_polygon(points), called without site_point
PolygonCoords(points) ==
    IF Len(points) < 3 THEN {points} ELSE GeneratePolygon(points)

\* lines 54-63: read the plant/site join once and group it by site_id
\* (pandas groupby yields the groups in increasing key order)
D_Start ==
    /\ d_pc = "idle"
    /\ d_rows' = [p \in DOMAIN plants |-> plants[p].site_id]
    /\ d_todo' = SortedInts({plants[p].site_id : p \in DOMAIN plants})
    /\ d_pc' = "loop"
    /\ d_writes' = [p \in DOMAIN plants |-> 0]
    /\ last' = [op |-> "script_start"]
    /\ UNCHANGED <<d_group, d_polygon, d_new_area, store, gvars, api_key, requests, d2,
                   cvars>>

\* lines 63-75: next group, its polygon, then the first commit: the Area
D_Area ==
    /\ d_pc = "loop"
    /\ d_todo # <<>>
    /\ \E polygon_coords \in PolygonCoords(GroupPoints(d_rows, Head(d_todo))) :
        /\ polygon_coords # <<>>
        /\ d_polygon' = polygon_coords
    /\ d_group' = Head(d_todo)
    /\ d_todo' = Tail(d_todo)
    /\ areas' = areas \cup {next_area_id}
    /\ d_new_area' = next_area_id
    /\ next_area_id' = next_area_id + 1
    /\ d_pc' = "coords"
    /\ last' = [op |-> "script_area", area |-> next_area_id]
    /\ descriptions' = [a \in areas' |-> IF a \in areas THEN descriptions[a] ELSE ""]
    /\ UNCHANGED <<d_rows, d_writes, coords, plants, observations, gvars,
                   api_key, requests, d2, cvars>>

\* a mutation of PolygonRows: the vertices are numbered from 1
PolygonRowsFromOne(a, polygon_coords) ==
    [i \in 1..Len(polygon_coords) |->
        [area_id |-> a, latitude |-> polygon_coords[i][1],
         longitude |-> polygon_coords[i][2], order |-> i]]

\* the rows of lines 78-80: order = position in polygon_coords
PolygonRows(a, polygon_coords) ==
    [i \in 1..Len(polygon_coords) |->
        [area_id |-> a, latitude |-> polygon_coords[i][1],
         longitude |-> polygon_coords[i][2], order |-> i - 1]]

\* lines 78-81: the second commit: the AreaCoordinate rows
D_Coords ==
    /\ d_pc = "coords"
    /\ d_new_area \in areas
    /\ coords' = coords \o PolygonRows(d_new_area, d_polygon)
    /\ d_pc' = "plants"
    /\ last' = [op |-> "script_coords", area |-> d_new_area]
    /\ UNCHANGED <<d_rows, d_todo, d_group, d_polygon, d_new_area,
                   d_writes, areas, next_area_id, plants, observations,
                   descriptions, gvars, api_key, requests, d2, cvars>>

\* a mutation of ReassignPlants: only the first plant of the group
ReassignFirstPlant(pl, ids, a) ==
    [p \in DOMAIN pl |->
        IF p \in ids /\ \A q \in ids : p <= q
        THEN [pl[p] EXCEPT !.area_id = a] ELSE pl[p]]

\* a mutation of ReassignPlants: the update has no WHERE clause
ReassignPlantsAll(pl, ids, a) ==
    [p \in DOMAIN pl |-> [pl[p] EXCEPT !.area_id = a]]

\* lines 84-85: UPDATE plants SET area_id = :new WHERE id IN :plant_ids
ReassignPlants(pl, ids, a) ==
    [p \in DOMAIN pl |->
        IF p \in ids THEN [pl[p] EXCEPT !.area_id = a] ELSE pl[p]]

\* lines 83-86: the third commit: the plants of the group
D_Plants ==
    /\ d_pc = "plants"
    /\ d_new_area \in areas
    /\ plants' = ReassignPlants(plants, GroupPlants(d_rows, d_group), d_new_area)
    /\ d_pc' = "loop"
    /\ last' = [op |-> "script_plants", area |-> d_new_area,
                group |-> d_group]
    /\ d_writes' = [p \in DOMAIN d_writes |->
                        IF p \in GroupPlants(d_rows, d_group)
                        THEN d_writes[p] + 1 ELSE d_writes[p]]
    /\ UNCHANGED <<d_rows, d_todo, d_group, d_polygon, d_new_area, areas,
                   next_area_id, coords, observations, descriptions,
                   gvars, api_key, requests, d2, cvars>>

\* line 63: the loop is exhausted
D_Done ==
    /\ d_pc = "loop"
    /\ d_todo = <<>>
    /\ d_pc' = "done"
    /\ last' = [op |-> "script_done"]
    /\ UNCHANGED <<d_rows, d_todo, d_group, d_polygon, d_new_area, d_writes,
                   store, gvars, api_key, requests, d2, cvars>>

\* a commit of lines 81 or 86 raises (the connection is lost, or the
\* foreign key to areas fails because the Area was deleted meanwhile): the
\* script has no handler, the exception ends it; what the session had not
\* committed is lost, what it had committed stays
D_Fail ==
    /\ d_pc \in {"coords", "plants"}
    /\ d_pc' = "failed"
    /\ last' = [op |-> "script_failed", area |-> d_new_area, at |-> d_pc]
    /\ UNCHANGED <<d_rows, d_todo, d_group, d_polygon, d_new_area, d_writes,
                   store, gvars, api_key, requests, d2, cvars>>

Init ==
    /\ areas = {}
    /\ next_area_id = 1
    /\ coords = <<>>
    /\ plants \in PlantTables
    /\ observations = <<>>
    /\ descriptions = [a \in {} |-> ""]
    /\ DriverIdle
    /\ NoCall
    /\ NoCircle
    /\ NoRequest
    /\ api_key = NoKey
    /\ last = [op |-> "none"]

Next ==
    \/ \E coordinates \in ApiCoordLists : create_area(coordinates)
    \/ \E area_id \in AreaIds : delete_area_404(area_id)
    \/ \E area_id \in AreaIds : delete_area(area_id)
    \/ list_areas
    \/ D_Start
    \/ D_Area
    \/ D_Coords
    \/ D_Plants
    \/ D_Done
    \/ D_Fail

Spec == Init /\ [][Next]_vars

\* the script is a running process: while it has a next step it takes it;
\* nothing obliges a commit to fail or a client to send a request
ScriptFairness ==
    /\ WF_vars(D_Start)
    /\ WF_vars(D_Area)
    /\ WF_vars(D_Coords)
    /\ WF_vars(D_Plants)
    /\ WF_vars(D_Done)

SpecLive == Init /\ [][Next]_vars /\ ScriptFairness

(***************************************************************************)
(* Two writers at once: a second process runs utils/convertData.py, lines  *)
(* 51-86, while the first runs and clients post areas.  Every commit is    *)
(* one transaction of the store; the processes interleave between commits. *)
(***************************************************************************)
\* lines 54-63 in the second process
D2_Start ==
    /\ d2.pc = "idle"
    /\ d2' = [d2 EXCEPT !.pc = "loop",
                        !.rows = [p \in DOMAIN plants |-> plants[p].site_id],
                        !.todo = SortedInts({plants[p].site_id :
                                                p \in DOMAIN plants})]
    /\ last' = [op |-> "script_start", run |-> 2]
    /\ UNCHANGED <<store, dvars, gvars, api_key, requests, cvars>>

\* lines 63-75 in the second process: the Area
D2_Area ==
    /\ d2.pc = "loop"
    /\ d2.todo # <<>>
    /\ \E polygon_coords \in PolygonCoords(GroupPoints(d2.rows, Head(d2.todo))) :
        /\ polygon_coords # <<>>
        /\ d2' = [d2 EXCEPT !.pc = "coords", !.polygon = polygon_coords,
                            !.group = Head(d2.todo), !.todo = Tail(d2.todo),
                            !.new_area = next_area_id]
    /\ areas' = areas \cup {next_area_id}
    /\ next_area_id' = next_area_id + 1
    /\ last' = [op |-> "script_area", area |-> next_area_id, run |-> 2]
    /\ descriptions' = [a \in areas' |-> IF a \in areas THEN descriptions[a] ELSE ""]
    /\ UNCHANGED <<coords, plants, observations, dvars, gvars, api_key, requests,
                   cvars>>

\* lines 78-81 in the second process: the AreaCoordinate rows
D2_Coords ==
    /\ d2.pc = "coords"
    /\ d2.new_area \in areas
    /\ coords' = coords \o PolygonRows(d2.new_area, d2.polygon)
    /\ d2' = [d2 EXCEPT !.pc = "plants"]
    /\ last' = [op |-> "script_coords", area |-> d2.new_area, run |-> 2]
    /\ UNCHANGED <<areas, next_area_id, plants, observations, descriptions,
                   dvars, gvars, api_key, requests, cvars>>

\* lines 83-86 in the second process: the plants of the group
D2_Plants ==
    /\ d2.pc = "plants"
    /\ d2.new_area \in areas
    /\ plants' = ReassignPlants(plants, GroupPlants(d2.rows, d2.group),
                                d2.new_area)
    /\ d2' = [d2 EXCEPT !.pc = "loop"]
    /\ last' = [op |-> "script_plants", area |-> d2.new_area,
                group |-> d2.group, run |-> 2]
    /\ UNCHANGED <<areas, next_area_id, coords, observations, descriptions,
                   dvars, gvars, api_key, requests, cvars>>

\* line 63 in the second process: the loop is exhausted
D2_Done ==
    /\ d2.pc = "loop"
    /\ d2.todo = <<>>
    /\ d2' = [d2 EXCEPT !.pc = "done"]
    /\ last' = [op |-> "script_done", run |-> 2]
    /\ UNCHANGED <<store, dvars, gvars, api_key, requests, cvars>>

\* a commit of the second process raises (the store aborts one of two
\* transactions that wait for each other's row locks), and the process ends
D2_Fail ==
    /\ d2.pc \in {"coords", "plants"}
    /\ last' = [op |-> "script_failed", area |-> d2.new_area, at |-> d2.pc,
                run |-> 2]
    /\ d2' = [d2 EXCEPT !.pc = "failed"]
    /\ UNCHANGED <<store, dvars, gvars, api_key, requests, cvars>>

NextRace ==
    \/ \E coordinates \in ApiCoordLists : create_area(coordinates)
    \/ D_Start
    \/ D_Area
    \/ D_Coords
    \/ D_Plants
    \/ D_Done
    \/ D_Fail
    \/ D2_Start
    \/ D2_Area
    \/ D2_Coords
    \/ D2_Plants
    \/ D2_Done
    \/ D2_Fail

\* the store after ingestion of two sites, the first with two plants and
\* the second with one; no area yet
RacePlants ==
    <<[site_id |-> 1, area_id |-> NULL], [site_id |-> 1, area_id |-> NULL],
      [site_id |-> 2, area_id |-> NULL]>>

InitRace ==
    /\ areas = {}
    /\ next_area_id = 1
    /\ coords = <<>>
    /\ plants = RacePlants
    /\ observations = <<>>
    /\ descriptions = [a \in {} |-> ""]
    /\ DriverIdle
    /\ NoCall
    /\ NoCircle
    /\ NoRequest
    /\ api_key = NoKey
    /\ last = [op |-> "none"]

SpecRace == InitRace /\ [][NextRace]_vars

(***************************************************************************)
(* routes/endpoints/areas.py, lines 92-104 and 260-271: the monthly        *)
(* reduction of a plant's observations.                                    *)
(***************************************************************************)
\* [:12]
MaxMonths == 12

\* the order of datetime.date values
DateKey(d) == d.year * 10000 + d.month * 100 + d.day

\* ym = (obs.observation_date.year, obs.observation_date.month)
YM(o) == <<o.observation_date.year, o.observation_date.month>>

\* lines 95-98: month_dict.values() after the loop over the collection: one
\* list per month, months in the order of their first observation (dict
\* insertion order), each list in collection order
RECURSIVE MonthDict(_)
MonthDict(obs) ==
    IF obs = <<>> THEN <<>>
    ELSE LET month_dict == MonthDict(SubSeq(obs, 1, Len(obs) - 1))
             o == obs[Len(obs)]
             at == {k \in 1..Len(month_dict) : YM(month_dict[k][1]) = YM(o)}
         IN  IF at = {} THEN Append(month_dict, <<o>>)
             ELSE [month_dict EXCEPT ![CHOOSE k \in at : TRUE] = Append(@, o)]

\* a mutation of MaxByDate: the earliest observation of the month
MinByDate(obs_list) ==
    obs_list[CHOOSE i \in 1..Len(obs_list) :
        /\ \A j \in 1..Len(obs_list) :
            DateKey(obs_list[j].observation_date)
                >= DateKey(obs_list[i].observation_date)
        /\ \A j \in 1..(i - 1) :
            DateKey(obs_list[j].observation_date)
                > DateKey(obs_list[i].observation_date)]

\* a mutation of MaxByDate: the last of the elements with the greatest date
MaxByDateLast(obs_list) ==
    obs_list[CHOOSE i \in 1..Len(obs_list) :
        /\ \A j \in 1..Len(obs_list) :
            DateKey(obs_list[j].observation_date)
                <= DateKey(obs_list[i].observation_date)
        /\ \A j \in (i + 1)..Len(obs_list) :
            DateKey(obs_list[j].observation_date)
                < DateKey(obs_list[i].observation_date)]

\* max(obs_list, key=lambda o: o.observation_date): the first of the
\* elements with the greatest date
MaxByDate(obs_list) ==
    obs_list[CHOOSE i \in 1..Len(obs_list) :
        /\ \A j \in 1..Len(obs_list) :
            DateKey(obs_list[j].observation_date)
                <= DateKey(obs_list[i].observation_date)
        /\ \A j \in 1..(i - 1) :
            DateKey(obs_list[j].observation_date)
                < DateKey(obs_list[i].observation_date)]

\* x put into the descending list l behind every element not older than x
InsertDesc(l, x) ==
    LET n == Cardinality({i \in 1..Len(l) :
                DateKey(l[i].observation_date)
                    >= DateKey(x.observation_date)})
    IN  SubSeq(l, 1, n) \o <<x>> \o SubSeq(l, n + 1, Len(l))

\* sorted(monthly_obs, key=lambda o: o.observation_date, reverse=True):
\* descending, equal dates in their original order
RECURSIVE SortedDesc(_)
SortedDesc(l) ==
    IF l = <<>> THEN <<>>
    ELSE InsertDesc(SortedDesc(SubSeq(l, 1, Len(l) - 1)), l[Len(l)])

\* l[:n]
Take(l, n) == SubSeq(l, 1, IF Len(l) < n THEN Len(l) ELSE n)

\* lines 100-102: the latest observation of every month, in the order of
\* month_dict
RECURSIVE MonthlyObs(_)
MonthlyObs(lists) ==
    IF lists = <<>> THEN <<>>
    ELSE Append(MonthlyObs(SubSeq(lists, 1, Len(lists) - 1)),
                MaxByDate(lists[Len(lists)]))

\* lines 94-104: the list assigned to plant.observations
MonthlySummary(obs) ==
    Take(SortedDesc(MonthlyObs(MonthDict(obs))), MaxMonths)

(***************************************************************************)
(* The ORM session of a request (db/session.py, get_db of areas.py).       *)
(***************************************************************************)
\* Plant.observations of plant p as a query loads it: the rows of the
\* plant in the order the store returns them (no ORDER BY is stated)
LoadObservations(t, p) == SelectSeq(t, LAMBDA o : o.plant_id = p)

\* the observations table a flush writes after plant.observations was
\* assigned `kept` for every plant p of `ps`: an observation taken out of
\* the collection of its plant gets plant_id NULL (models/plant.py line 14
\* declares the relationship without delete-orphan; observation.plant_id
\* is nullable)
FlushCollections(t, ps, kept) ==
    [i \in 1..Len(t) |->
        IF /\ t[i].plant_id \in ps
           /\ \A k \in 1..Len(kept[t[i].plant_id]) :
                kept[t[i].plant_id][k].id # t[i].id
        THEN [t[i] EXCEPT !.plant_id = NULL]
        ELSE t[i]]

\* a mutation of CloseSession: the session is flushed and committed on exit
CloseSessionCommitting(committed, pending) == pending

\* get_db, lines 20-25: db.close() without commit discards what the
\* session holds
CloseSession(committed, pending) == committed

(***************************************************************************)
(* services/openai_service.py : validate_api_key                           *)
(***************************************************************************)
MinKeyLen == 20

validate_api_key(k) ==
    /\ k.len > 0
    /\ k.prefix = "sk-"
    /\ k.len >= MinKeyLen

(***************************************************************************)
(* routes/endpoints/areas.py : get_area                                    *)
(***************************************************************************)
\* area.description (the column is declared in the data model of the
\* specification and in schemas/area.py; models/area.py does not list it)
AreaDescription(a) == descriptions[a]

\* lines 92-104: plant.observations after the loop, for every plant of the
\* area
ReducedCollections(t, ps) ==
    [p \in ps |-> MonthlySummary(LoadObservations(t, p))]

\* GET /areas/{area_id} on a missing area: 404
get_area_404(area_id) ==
    /\ area_id \notin areas
    /\ last' = [op |-> "get_area", status |-> 404]
    /\ UNCHANGED <<store, dvars, gvars, api_key, requests, d2, cvars>>

\* GET /areas/{area_id}, lines 81-174.  The response is serialized from the
\* returned Area after the handler ends: where nothing was committed it
\* holds the reduced collections; db.commit() (line 164) flushes the
\* session, so the reduced collections reach the store, and expires every
\* loaded object, so the response is read again from the store
\* (llm: OpenAIService.generate_area_description returns or raises)
get_area(area_id, llm) ==
    /\ area_id \in areas
    /\ \E summary \in {ReducedCollections(observations,
                                            MembersOf(plants, area_id))} :
       LET ps == MembersOf(plants, area_id)
           loaded == [p \in ps |-> LoadObservations(observations, p)]
           pending == FlushCollections(observations, ps, summary)
           generate == AreaDescription(area_id) = "" /\ api_key.len > 0
           commit == generate /\ llm = "ok"
           stored == IF commit THEN pending
                     ELSE CloseSession(observations, pending)
       IN  /\ observations' = stored
           /\ descriptions' =
                IF commit
                THEN [descriptions EXCEPT ![area_id] = "generated"]
                ELSE descriptions
           /\ last' = [op |-> "get_area", status |-> 200, area |-> area_id,
                       loaded |-> loaded, summary |-> summary,
                       had_description |-> AreaDescription(area_id) # "",
                       llm_called |-> generate,
                       llm |-> IF generate THEN llm ELSE "none",
                       committed |-> commit,
                       response |-> IF commit
                                    THEN [p \in ps |->
                                            LoadObservations(stored, p)]
                                    ELSE summary]
    /\ UNCHANGED <<areas, next_area_id, coords, plants, dvars, gvars,
                   api_key, requests, d2, cvars>>

(***************************************************************************)
(* routes/endpoints/areas.py : chat_about_area                             *)
(***************************************************************************)
\* not chat_request.question or not chat_request.question.strip()
Questions == {"", "   ", "What is blooming here?"}
IsBlank(q) == q \in {"", "   "}

\* a mutation of ChatStatus: the handler of line 338 takes every error, the
\* HTTPExceptions included
ChatStatusAllErrors500(area_id, question, llm) ==
    IF /\ area_id \in areas
       /\ ~IsBlank(question)
       /\ validate_api_key(api_key)
       /\ llm = "ok"
    THEN 200
    ELSE 500

\* POST /areas/{area_id}/chat, lines 217-356: the status of the response
ChatStatus(area_id, question, llm) ==
    IF area_id \notin areas THEN 404
    ELSE IF IsBlank(question) THEN 400
    ELSE IF api_key.len = 0 THEN 500
    ELSE IF ~validate_api_key(api_key) THEN 500
    ELSE IF llm = "raise" THEN 500
    ELSE 200

\* the request ends before the reduction of lines 260-271
chat_about_area_rejected(area_id, question) ==
    /\ \/ area_id \notin areas
       \/ IsBlank(question)
       \/ ~validate_api_key(api_key)
    /\ last' = [op |-> "chat_about_area",
                status |-> ChatStatus(area_id, question, "raise"),
                area |-> area_id, question |-> question]
    /\ UNCHANGED <<store, dvars, gvars, api_key, requests, d2, cvars>>

\* the request reaches the reduction and the OpenAI call; nothing is
\* committed, and get_db closes the session
chat_about_area(area_id, question, llm) ==
    /\ area_id \in areas
    /\ ~IsBlank(question)
    /\ validate_api_key(api_key)
    /\ \E summary \in {ReducedCollections(observations,
                                            MembersOf(plants, area_id))} :
       LET ps == MembersOf(plants, area_id)
           loaded == [p \in ps |-> LoadObservations(observations, p)]
           pending == FlushCollections(observations, ps, summary)
       IN  /\ observations' = CloseSession(observations, pending)
           /\ last' = [op |-> "chat_about_area",
                       status |-> ChatStatus(area_id, question, llm),
                       area |-> area_id, question |-> question,
                       loaded |-> loaded, summary |-> summary,
                       llm_called |-> TRUE, committed |-> FALSE,
                       response |-> <<>>]
    /\ UNCHANGED <<areas, next_area_id, coords, plants, descriptions,
                   dvars, gvars, api_key, requests, d2, cvars>>

(***************************************************************************)
(* The store the read requests run against: the script has materialized    *)
(* site 1 (plants 1 and 2) as area 1 and the observations are ingested     *)
(* (utils/convertData.py, lines 89-124).                                   *)
(***************************************************************************)
Date(y, m, d) == [year |-> y, month |-> m, day |-> d]

\* an observations row: the columns the requests read
Observation(id, plant, date) ==
    [id |-> id, plant_id |-> plant, observation_date |-> date]

\* the i-th month from January 2023 on, observed on the 15th
MonthDate(i) == Date(2023 + ((i - 1) \div 12), ((i - 1) % 12) + 1, 15)

\* plant 1: one observation in each of the first n months, stored oldest
\* first or newest first
LongHistories ==
    {[i \in 1..n |-> Observation(i, 1, MonthDate(IF asc THEN i ELSE n + 1 - i))]
        : n \in 0..NMonths, asc \in BOOLEAN}

ShortDates == {Date(2024, 1, 5), Date(2024, 1, 20), Date(2024, 2, 1)}

\* plant 2: up to MaxObs observations on the dates of ShortDates, in any
\* stored order, dates repeated or not
ShortHistories ==
    UNION {{[i \in 1..n |-> Observation(100 + i, 2, ds[i])]
                : ds \in [1..n -> ShortDates]} : n \in 0..MaxObs}

\* plants 1 and 2 at site 1 in area 1, the others at site 2 in no area
ReadPlants ==
    [p \in PlantIds |->
        IF p <= 2 THEN [site_id |-> 1, area_id |-> 1]
        ELSE [site_id |-> 2, area_id |-> NULL]]

InitRead ==
    /\ areas = {1}
    /\ next_area_id = 2
    /\ coords = PolygonRows(1, <<SiteLoc(1), SiteLoc(1)>>)
    /\ plants = ReadPlants
    /\ \E long \in LongHistories, short \in ShortHistories :
        /\ long = <<>> \/ Len(short) <= 1
        /\ observations = long \o short
    /\ descriptions = [a \in {1} |-> ""]
    /\ api_key \in Keys
    /\ DriverIdle
    /\ NoCall
    /\ NoCircle
    /\ NoRequest
    /\ last = [op |-> "none"]

NextRead ==
    \/ \E area_id \in 1..2 : get_area_404(area_id)
    \/ \E area_id \in 1..2, llm \in {"ok", "raise"} :
        get_area(area_id, llm)
    \/ \E area_id \in 1..2, question \in Questions :
        chat_about_area_rejected(area_id, question)
    \/ \E area_id \in 1..2, question \in Questions,
          llm \in {"ok", "raise"} :
        chat_about_area(area_id, question, llm)

SpecRead == InitRead /\ [][NextRead]_vars

(***************************************************************************)
(* routes/endpoints/areas.py : get_area, handled by several workers at     *)
(* once (a `def` endpoint runs in the server's thread pool).  Each request *)
(* has its own session; the requests interleave around the call of the     *)
(* OpenAI service.                                                         *)
(***************************************************************************)
\* generate_area_description returns a text that may differ between calls
Texts == {"generated", "generated anew"}

\* lines 81-114: the query, the reduction in the session, and the tests of
\* lines 107 and 112 on what the query loaded.  With a description or
\* without key the request ends here and its session is closed
GA_Load(r, area_id) ==
    /\ requests[r].pc = "idle"
    /\ area_id \in areas
    /\ \E summary \in {ReducedCollections(observations,
                                            MembersOf(plants, area_id))} :
       LET generate == AreaDescription(area_id) = "" /\ api_key.len > 0
       IN  /\ requests' =
                [requests EXCEPT ![r] =
                    IF generate
                    THEN [pc |-> "llm", area |-> area_id, summary |-> summary]
                    ELSE [pc |-> "done", area |-> area_id, summary |-> <<>>]]
           /\ last' = IF generate
                      THEN [op |-> "get_area_query", area |-> area_id,
                            request |-> r]
                      ELSE [op |-> "get_area", status |-> 200,
                            area |-> area_id, request |-> r,
                            had_description |-> AreaDescription(area_id) # "",
                            llm_called |-> FALSE, committed |-> FALSE]
    /\ UNCHANGED <<store, dvars, gvars, api_key, d2, cvars>>

\* lines 157-174: the OpenAI call, and when it returns the assignment and
\* db.commit(), which flushes the collections reduced at lines 92-104 as
\* this request loaded them; when it raises nothing is committed
GA_Generate(r, llm, text) ==
    /\ requests[r].pc = "llm"
    /\ LET area_id == requests[r].area
           ps == DOMAIN requests[r].summary
       IN  /\ observations' =
                IF llm = "ok"
                THEN FlushCollections(observations, ps, requests[r].summary)
                ELSE observations
           /\ descriptions' =
                IF llm = "ok"
                THEN [descriptions EXCEPT ![area_id] = text]
                ELSE descriptions
           /\ last' = [op |-> "get_area", status |-> 200, area |-> area_id,
                       request |-> r,
                       had_description |-> AreaDescription(area_id) # "",
                       llm_called |-> TRUE, committed |-> llm = "ok"]
    /\ requests' = [requests EXCEPT ![r] =
                        [pc |-> "done", area |-> requests[r].area,
                         summary |-> <<>>]]
    /\ UNCHANGED <<areas, next_area_id, coords, plants, dvars, gvars,
                   api_key, d2, cvars>>

NextReadRace ==
    \/ \E r \in RequestIds, area_id \in 1..2 : GA_Load(r, area_id)
    \/ \E r \in RequestIds, llm \in {"ok", "raise"}, text \in Texts :
        GA_Generate(r, llm, text)

SpecReadRace == InitRead /\ [][NextReadRace]_vars

(***************************************************************************)
(* routes/endpoints/openai_chat.py : chat_with_openai                      *)
(***************************************************************************)
\* schemas/openai_chat.py, lines 5-8
ChatMessage(role, content) == [role |-> role, content |-> content]

\* ChatRequest.conversation_history, lines 18-21: None, or the first
\* messages of a dialogue (None and the empty list are both falsy at line 93)
Dialogue ==
    [i \in 1..MaxHistory |->
        ChatMessage(IF i % 2 = 1 THEN "user" ELSE "assistant", "earlier")]
Histories == {SubSeq(Dialogue, 1, n) : n \in 0..MaxHistory}

\* ChatRequest, lines 11-21, by the fields the handler branches on
ChatRequests ==
    [api_key : Keys, message : Questions, conversation_history : Histories]

\* a mutation of EffectiveKey: the key of the settings is never used
EffectiveKeyRequestOnly(request) == request.api_key

\* line 66: request.api_key or settings.OPENAI_API_KEY
EffectiveKey(request) ==
    IF request.api_key.len > 0 THEN request.api_key ELSE api_key

\* services/openai_service.py, lines 45-59: the messages array sent to the
\* API, the history first and the user's message last
ServiceMessages(request) ==
    request.conversation_history
        \o <<ChatMessage("user", request.message)>>

\* lines 64-136: the status of the response
ChatOpenAIStatus(request, llm) ==
    IF EffectiveKey(request).len = 0 THEN 400
    ELSE IF ~validate_api_key(EffectiveKey(request)) THEN 400
    ELSE IF IsBlank(request.message) THEN 400
    ELSE IF llm = "raise" THEN 500
    ELSE 200

\* lines 69-89: one of the three validations raises, and line 114 re-raises
chat_with_openai_rejected(request) ==
    /\ \/ ~validate_api_key(EffectiveKey(request))
       \/ IsBlank(request.message)
    /\ last' = [op |-> "chat_with_openai",
                status |-> ChatOpenAIStatus(request, "raise"),
                request |-> request,
                llm_called |-> FALSE]
    /\ UNCHANGED <<store, dvars, gvars, api_key, requests, d2, cvars>>

\* lines 91-136: the request reaches create_chat_completion, which answers
\* or raises (lines 84-86, turned into 500 at lines 118-136)
chat_with_openai(request, llm) ==
    /\ validate_api_key(EffectiveKey(request))
    /\ ~IsBlank(request.message)
    /\ last' = [op |-> "chat_with_openai",
                status |-> ChatOpenAIStatus(request, llm),
                request |-> request,
                llm_called |-> TRUE,
                key |-> EffectiveKey(request),
                messages |-> ServiceMessages(request),
                llm |-> llm]
    /\ UNCHANGED <<store, dvars, gvars, api_key, requests, d2, cvars>>

\* the service with an empty database and any configured key
InitChat ==
    /\ areas = {}
    /\ next_area_id = 1
    /\ coords = <<>>
    /\ plants = <<>>
    /\ observations = <<>>
    /\ descriptions = <<>>
    /\ api_key \in Keys
    /\ DriverIdle
    /\ NoCall
    /\ NoCircle
    /\ NoRequest
    /\ last = [op |-> "none"]

NextChat ==
    \/ \E request \in ChatRequests : chat_with_openai_rejected(request)
    \/ \E request \in ChatRequests, llm \in {"ok", "raise"} :
        chat_with_openai(request, llm)

SpecChat == InitChat /\ [][NextChat]_vars

(***************************************************************************)
(* Properties of POST /openai/chat, checked under SpecChat.                *)
(***************************************************************************)
\* the key the last chat request had available: its own, else the settings'
KeyAvailable ==
    IF last.request.api_key.len > 0 THEN last.request.api_key ELSE api_key

\* the last chat request had no usable key or no message
MustReject ==
    \/ last.request.api_key.len = 0 /\ api_key.len = 0
    \/ KeyAvailable.prefix # "sk-"
    \/ KeyAvailable.len < MinKeyLen
    \/ IsBlank(last.request.message)

\* C20: chat_with_openai rejects with 400, without calling the OpenAI
\* service, when no API key is available (request or settings), when the key
\* does not start with 'sk-' or is shorter than 20 characters, or when the
\* message is empty or blank; otherwise the service is called with that key,
\* and a failure of the call yields 500.
C20_ChatWithOpenAIRejects400Else500 ==
    last.op = "chat_with_openai" =>
        /\ MustReject => (last.status = 400 /\ ~last.llm_called)
        /\ ~MustReject =>
            /\ last.llm_called
            /\ last.key = KeyAvailable
            /\ last.llm = "raise" => last.status = 500
            /\ last.llm = "ok" => last.status = 200

\* a request without key was rejected with 400 because the key of the
\* settings is too short, the message being fine
C20_Witness ==
    /\ last.op = "chat_with_openai"
    /\ last.request.api_key.len = 0
    /\ api_key.prefix = "sk-"
    /\ api_key.len < MinKeyLen
    /\ ~IsBlank(last.request.message)
    /\ last.status = 400
    /\ ~last.llm_called

(***************************************************************************)
(* Properties of the read requests, checked under SpecRead.                *)
(***************************************************************************)
\* the last request ran the monthly reduction
Reduced == last.op \in {"get_area", "chat_about_area"} /\ last.status # 404
              /\ last.status # 400 /\ "summary" \in DOMAIN last

\* the dates of a list of observations
DatesOf(l) == [i \in 1..Len(l) |-> l[i].observation_date]

\* the months present in a list of observations
MonthsOf(l) == {YM(l[i]) : i \in 1..Len(l)}

\* month m is more recent than month n
MonthAfter(m, n) == m[1] > n[1] \/ (m[1] = n[1] /\ m[2] > n[2])

\* C2: after any get_area or chat_about_area request every plant of the
\* area still has in the store exactly the observations, with the same
\* plant_id and field values, that it had when the request loaded them: the
\* monthly reduction is never persisted.
C2_ReductionNeverPersisted ==
    Reduced =>
        \A p \in DOMAIN last.loaded :
            LoadObservations(observations, p) = last.loaded[p]

\* a list of observations has at most 12 entries, no two of one month, and
\* strictly descending dates
WellFormedSummary(l) ==
    /\ Len(l) <= MaxMonths
    /\ \A i, j \in 1..Len(l) : i # j => YM(l[i]) # YM(l[j])
    /\ \A i \in 1..(Len(l) - 1) :
        DateKey(l[i].observation_date) > DateKey(l[i + 1].observation_date)

\* C3: every monthly summary a request hands out (the observations of each
\* plant in the body of a get_area response, and those sent to the language
\* model by get_area and chat_about_area) has at most 12 entries, no two in
\* the same (year, month), and strictly descending dates.
C3_SummaryBoundedDistinctDescending ==
    Reduced =>
        /\ last.llm_called =>
            \A p \in DOMAIN last.summary : WellFormedSummary(last.summary[p])
        /\ last.op = "get_area" =>
            \A p \in DOMAIN last.response :
                WellFormedSummary(last.response[p])

\* the (up to) 12 most recent months present in a list of observations
RecentMonths(l) ==
    {m \in MonthsOf(l) :
        Cardinality({n \in MonthsOf(l) : MonthAfter(n, m)}) < MaxMonths}

\* C4: the list the reduction assigns to a plant holds, for each of the (up
\* to) 12 most recent months present in the plant's loaded observations,
\* exactly one observation, one of that plant's whose date is the latest of
\* its month, and nothing else; observations dated 2024-01-05, 2024-01-20,
\* 2024-02-01 reduce to [2024-02-01, 2024-01-20].
C4_SummaryIsLatestPerRecentMonth ==
    Reduced =>
        \A p \in DOMAIN last.summary :
            LET l == last.loaded[p]
                r == last.summary[p]
            IN  /\ MonthsOf(r) = RecentMonths(l)
                /\ Len(r) = Cardinality(RecentMonths(l))
                /\ \A k \in 1..Len(r) :
                    /\ \E i \in 1..Len(l) : l[i] = r[k]
                    /\ \A i \in 1..Len(l) :
                        YM(l[i]) = YM(r[k]) =>
                            DateKey(l[i].observation_date)
                                <= DateKey(r[k].observation_date)
                /\ DatesOf(l) = <<Date(2024, 1, 5), Date(2024, 1, 20),
                                  Date(2024, 2, 1)>>
                    => DatesOf(r) = <<Date(2024, 2, 1), Date(2024, 1, 20)>>

\* a request reduced the three observations of the example to two
C4_Witness ==
    /\ Reduced
    /\ \E p \in DOMAIN last.summary :
        /\ DatesOf(last.loaded[p]) = <<Date(2024, 1, 5), Date(2024, 1, 20),
                                       Date(2024, 2, 1)>>
        /\ DatesOf(last.summary[p]) = <<Date(2024, 2, 1), Date(2024, 1, 20)>>

Before(l, x) ==
    {l[j] : j \in {i \in 1..Len(l) : \A k \in 1..i : l[k].id # x}}

\* C25: when several observations of a month share the month's maximal
\* observation_date, the monthly reduction keeps the one that comes first in
\* the plant's observation collection: no observation of the same month
\* with the same date precedes a kept one in the collection as loaded.
C25_TieKeepsFirstInCollection ==
    Reduced =>
        \A p \in DOMAIN last.summary :
            \A k \in 1..Len(last.summary[p]) :
                \A o \in Before(last.loaded[p], last.summary[p][k].id) :
                    o.observation_date
                        # last.summary[p][k].observation_date

\* the reduction ran on a collection in which two observations share the
\* maximal date of their month and a third of that month is older
C25_Witness ==
    /\ Reduced
    /\ \E p \in DOMAIN last.loaded :
        /\ Len(last.loaded[p]) = 3
        /\ \E i \in 1..3, j \in 1..3 :
            /\ i < j
            /\ last.loaded[p][i].observation_date
                = last.loaded[p][j].observation_date
            /\ \E k \in 1..3 :
                /\ YM(last.loaded[p][k]) = YM(last.loaded[p][i])
                /\ DateKey(last.loaded[p][k].observation_date)
                    < DateKey(last.loaded[p][i].observation_date)
            /\ last.summary[p] = <<last.loaded[p][i]>>

\* C28: an Area's description is generated at most once: once an Area has
\* a non-empty stored description, no get_area request, whether it follows
\* or overlaps the one that stored it, calls the LLM for the Area or changes
\* the stored description.
C28_DescriptionGeneratedAtMostOnce ==
    (/\ last.op = "get_area"
     /\ last.status = 200
     /\ last.had_description)
        => (~last.llm_called /\ ~last.committed)

\* the last request was a chat request
Chat == last.op = "chat_about_area"

OrdersOf(t, a) == {CoordsOf(t, a)[i].order : i \in 1..Len(CoordsOf(t, a))}

\* C1: materializing one site-group is all-or-nothing: once the script has
\* failed between the first and the last write of a group, the store holds
\* no Area created for that group, no AreaCoordinate of it and no plant
\* pointing to it
C1_FailureLeavesNoPartialArea ==
    d_pc = "failed"
        => /\ d_new_area \notin areas
           /\ CoordsOf(coords, d_new_area) = <<>>
           /\ MembersOf(plants, d_new_area) = {}

\* C5: after delete_area succeeds on an existing Area the Area row is gone,
\* no AreaCoordinate row with that area_id remains, every plant that was a
\* member has area_id NULL, and no Plant row has been deleted
C5_DeleteAreaDetachesAndCascades ==
    (last.op = "delete_area" /\ last.status = 204)
        => /\ last.area \notin areas
           /\ CoordsOf(coords, last.area) = <<>>
           /\ \A p \in last.members :
                p \in DOMAIN plants /\ plants[p].area_id = NULL
           /\ DOMAIN plants = PlantIds

\* an Area with coordinates and 3 member plants has just been deleted
C5_Witness ==
    /\ last.op = "delete_area"
    /\ last.status = 204
    /\ Cardinality(last.members) = 3
    /\ last.ncoords >= 1

\* C6: in every reachable state the order values of the AreaCoordinates of
\* each Area are exactly 0..n-1, no gap and no repeat
C6_OrdersContiguousFromZero ==
    \A a \in areas :
        OrdersOf(coords, a) = 0..(Len(CoordsOf(coords, a)) - 1)

\* C7: in every reachable state every committed Area has at least one
\* AreaCoordinate
C7_NoAreaWithoutCoordinates ==
    \A a \in areas : Len(CoordsOf(coords, a)) >= 1

\* C15: the AreaCoordinate rows of an Area are delivered to a reader sorted
\* by order ascending, whatever the row order in the store.
C15_CoordinatesDeliveredByOrder ==
    last.op = "list_areas" =>
        \A a \in DOMAIN last.body :
            \A i \in 1..(Len(last.body[a]) - 1) :
                last.body[a][i].order <= last.body[a][i + 1].order

\* C14: a materialization that succeeds for a group with vertex sequence v
\* and plant ids P creates exactly one Area (at its first commit, none
\* later), gives that Area exactly Len(v) AreaCoordinates, the i-th with the
\* Area's id, the coordinates of v[i] and order i (counted from 0), and sets
\* area_id of exactly the plants of P to the Area's id.
C14_MaterializationWritesExactly ==
    [][/\ (d_pc = "loop" /\ d_pc' = "coords")
            => /\ areas' = areas \cup {d_new_area'}
               /\ d_new_area' \notin areas
       /\ (d_pc = "coords" /\ d_pc' = "plants") => areas' = areas
       /\ (d_pc = "plants" /\ d_pc' = "loop")
            => LET a == d_new_area
                   v == d_polygon
                   P == {p \in DOMAIN d_rows : d_rows[p] = d_group}
                   rows == CoordsOf(coords', a)
               IN  /\ areas' = areas
                   /\ a \in areas'
                   /\ Len(rows) = Len(v)
                   /\ \A i \in 1..Len(v) :
                        /\ rows[i].area_id = a
                        /\ rows[i].latitude = v[i][1]
                        /\ rows[i].longitude = v[i][2]
                        /\ rows[i].order = i - 1
                   /\ MembersOf(plants', a) = P
                   /\ \A p \in DOMAIN plants \ P : plants'[p] = plants[p]
      ]_vars

\* the script has just finished a group of two plants with two vertices
C14_Witness ==
    /\ last.op = "script_plants"
    /\ Len(d_polygon) = 2
    /\ Len(CoordsOf(coords, last.area)) = 2
    /\ Cardinality(MembersOf(plants, last.area)) = 2

(***************************************************************************)
(* Properties of generate_polygon, checked under SpecPoly.                 *)
(***************************************************************************)
\* the distinct points of the argument
Distinct == ToSet(g_points)

\* s lists the set S, each element once
ListsOnce(s, S) == ToSet(s) = S /\ Len(s) = Cardinality(S)

NoThreeCollinear(S) ==
    \A p \in S, q \in S, r \in S :
        (p # q /\ q # r /\ p # r) => Cross(p, q, r) # 0

\* the vertex after position i, cyclically
Succ(v, i) == v[(i % Len(v)) + 1]

\* consecutive edges of v always turn the same way, and never go straight
StrictlyConvex(v) ==
    \/ \A i \in 1..Len(v) : Cross(v[i], Succ(v, i), Succ(v, i + 1)) > 0
    \/ \A i \in 1..Len(v) : Cross(v[i], Succ(v, i), Succ(v, i + 1)) < 0

\* every point of S lies on one and the same side of (or on) every edge
\* of v: inside or on the convex polygon v
Encloses(v, S) ==
    \/ \A i \in 1..Len(v), r \in S : Cross(v[i], Succ(v, i), r) >= 0
    \/ \A i \in 1..Len(v), r \in S : Cross(v[i], Succ(v, i), r) <= 0

\* C10: for at least 3 distinct points, no three collinear, the result is a
\* convex polygon in the returned order, made of input points, and every
\* input point lies inside or on it
C10_HullIsConvexAndEncloses ==
    (g_pc = "done" /\ Cardinality(Distinct) >= 3 /\ NoThreeCollinear(Distinct))
        => /\ Len(g_result) >= 3
           /\ ToSet(g_result) \subseteq Distinct
           /\ Cardinality(ToSet(g_result)) = Len(g_result)
           /\ StrictlyConvex(g_result)
           /\ Encloses(g_result, Distinct)

\* a hull was returned for four points, no three collinear, one of which
\* lies strictly inside the triangle of the other three
C10_Witness ==
    /\ g_pc = "done"
    /\ Cardinality(Distinct) = 4
    /\ NoThreeCollinear(Distinct)
    /\ Len(g_result) = 3
    /\ g_hull

\* the fallback point set of the call: the anchor alone if one was supplied,
\* otherwise the distinct input points, each once
IsFallbackResult ==
    IF g_site_point # None
    THEN g_result = <<g_site_point>>
    ELSE ListsOnce(g_result, Distinct)

\* at least 3 distinct points, every one a pair of numbers, all on one line
CollinearInput ==
    /\ Cardinality(Distinct) >= 3
    /\ \A p \in Distinct : ~IsNan(p)
    /\ AllCollinear(Distinct)

\* C11: for 3 or more distinct points that are all collinear, a call of
\* generate_polygon that has ended has not raised: it has warned and
\* returned the fallback point set (the anchor if supplied, otherwise the
\* distinct input points).
C11_CollinearWarnsAndFallsBack ==
    (g_pc # "call" /\ CollinearInput)
        => (g_pc = "done" /\ g_warned /\ IsFallbackResult)

\* a call on three collinear points without anchor has warned and returned
\* the three points
C11_Witness ==
    /\ g_pc = "done"
    /\ CollinearInput
    /\ g_site_point = None
    /\ g_warned
    /\ Len(g_result) = 3

\* C12: whenever the hull computation was attempted the call returns, and
\* when the computation cannot yield a hull (a coordinate is not a number,
\* or the points are collinear) the result is the fallback point set: no
\* exception of the hull computation reaches the caller.
C12_HullFailureNeverReachesCaller ==
    g_hull =>
        /\ g_pc = "done"
        /\ ((\E p \in Distinct : IsNan(p)) \/ AllCollinear(Distinct))
            => IsFallbackResult

\* C13: two calls of generate_polygon whose inputs have the same set of
\* distinct points (and the same anchor) return the same vertex sequence in
\* the same order.
C13_SamePointSetSameVertices ==
    (/\ g_pc = "done"
     /\ last.op = "generate_polygon"
     /\ ToSet(last.points) = Distinct
     /\ last.site_point = g_site_point)
        => g_result = last.result

\* the location of the site of plant p
PlantLoc(p) == SiteLoc(plants[p].site_id)

\* the vertices of area a, in stored order
VerticesOf(a) ==
    [i \in 1..Len(CoordsOf(coords, a)) |->
        <<CoordsOf(coords, a)[i].latitude, CoordsOf(coords, a)[i].longitude>>]

\* C16: in every reachable state each plant whose area_id is set references
\* an Area that exists and whose coordinates include the location of the
\* plant's site, or, being a polygon of 3 or more vertices, bound it.
C16_PlantAreaCoversSite ==
    \A p \in DOMAIN plants :
        plants[p].area_id # NULL =>
            /\ plants[p].area_id \in areas
            /\ \/ PlantLoc(p) \in ToSet(VerticesOf(plants[p].area_id))
               \/ /\ Len(VerticesOf(plants[p].area_id)) >= 3
                  /\ Encloses(VerticesOf(plants[p].area_id), {PlantLoc(p)})

\* the script has given every plant an Area and an Area of the script was
\* deleted afterwards, while another still has its plants
C16_Witness ==
    /\ d_pc = "done"
    /\ last.op = "delete_area"
    /\ last.status = 204
    /\ last.members # {}
    /\ \E p \in DOMAIN plants : plants[p].area_id # NULL

\* C17: a failure while materializing one site-group does not stop the
\* batch: after the failure the script goes on until every site-group that
\* follows in iteration order has been processed and the loop has ended.
C17_FailureDoesNotStopBatch ==
    (d_pc = "failed") ~> (d_pc = "done" /\ d_todo = <<>>)

\* C24: within one clustering run each plant's area_id is written exactly
\* once (never twice, and once when the run has ended), with the id of the
\* Area that the run created for the plant's own site-group; apart from
\* that write it changes only to null, when the Area it names is deleted.
C24_AreaIdWrittenOncePerRun ==
    /\ [](\A p \in DOMAIN d_writes :
            /\ d_writes[p] <= 1
            /\ d_pc = "done" => d_writes[p] = 1)
    /\ [][/\ (d_pc = "loop" /\ d_pc' = "coords")
            => /\ d_new_area' \in areas' \ areas
               /\ d_group' \notin {d_rows[p] : p \in {q \in DOMAIN d_writes :
                                                        d_writes[q] > 0}}
          /\ (d_pc = "coords" /\ d_pc' = "plants")
            => (d_new_area' = d_new_area /\ d_group' = d_group)
          /\ \A p \in DOMAIN plants :
              plants'[p].area_id # plants[p].area_id =>
                \/ /\ d_pc = "plants" /\ d_pc' = "loop"
                   /\ plants[p].site_id = d_group
                   /\ plants'[p].area_id = d_new_area
                   /\ d_writes'[p] = d_writes[p] + 1
                \/ /\ plants'[p].area_id = NULL
                   /\ plants[p].area_id \in areas \ areas'
                   /\ d_writes' = d_writes
          /\ \A p \in DOMAIN d_writes :
              d_writes'[p] # d_writes[p] =>
                (d_pc = "plants" /\ plants'[p].area_id = d_new_area)
         ]_vars

\* the run has ended, and a plant it had assigned lost its Area to a
\* deletion
C24_Witness ==
    /\ d_pc = "done"
    /\ \E p \in DOMAIN d_writes :
        /\ d_writes[p] = 1
        /\ plants[p].area_id = NULL
    /\ \E p \in DOMAIN d_writes : plants[p].area_id # NULL

\* C26: when two writers run at once (two clustering runs, or a run and
\* create_area calls) each creates its own Area, with an id no other Area
\* has or had, and its own coordinates; a plant reassigned by both runs
\* carries the area_id of the update that committed last; and all plants of
\* one site-group carry the same area_id.
C26_ConcurrentWritersLastWins ==
    /\ [](/\ \A p \in DOMAIN plants : \A q \in DOMAIN plants :
                plants[p].site_id = plants[q].site_id
                    => plants[p].area_id = plants[q].area_id
          /\ (d_new_area # NULL /\ d2.new_area # NULL)
                => d_new_area # d2.new_area
          /\ d_pc = "plants" => VerticesOf(d_new_area) = d_polygon
          /\ d2.pc = "plants" => VerticesOf(d2.new_area) = d2.polygon
          /\ last.op = "script_plants"
                => \A p \in DOMAIN plants :
                    plants[p].site_id = last.group
                        => plants[p].area_id = last.area)
    /\ [][/\ areas' # areas
                => /\ areas' = areas \cup {next_area_id}
                   /\ next_area_id \notin areas
                   /\ next_area_id' > next_area_id
                   /\ CoordsOf(coords, next_area_id) = <<>>
          /\ \A a \in areas :
                CoordsOf(coords', a) # CoordsOf(coords, a)
                    => /\ CoordsOf(coords, a) = <<>>
                       /\ \A b \in areas \ {a} :
                            CoordsOf(coords', b) = CoordsOf(coords, b)
         ]_vars

\* both runs went through every group, the second run committed the last
\* update of plants, and a client posted an area meanwhile
C26_Witness ==
    /\ d_pc = "done"
    /\ \A p \in DOMAIN d_writes : d_writes[p] = 1
    /\ d2.pc = "loop"
    /\ d2.todo = <<>>
    /\ last.op = "script_plants"
    /\ last.area = d2.new_area
    /\ Cardinality(areas) > 2 * Cardinality({plants[p].site_id :
                                                p \in DOMAIN plants})
    /\ \E p \in DOMAIN plants : plants[p].area_id = d2.new_area
    /\ \E p \in DOMAIN plants : plants[p].area_id \notin {NULL, d2.new_area}

\* C27: referential integrity holds in every reachable state under any
\* interleaving of create_area, delete_area and the single commits of the
\* clustering driver: every non-null Plant.area_id and every
\* AreaCoordinate.area_id names an Area row that exists.
C27_ReferentialIntegrity ==
    /\ \A p \in DOMAIN plants :
        plants[p].area_id # NULL => plants[p].area_id \in areas
    /\ \A i \in 1..Len(coords) : coords[i].area_id \in areas

\* the Area of the group being materialized was deleted between two commits
\* of the script, after its coordinates were written, while an Area made
\* earlier still has its coordinates and its plants
C27_Witness ==
    /\ d_pc = "plants"
    /\ d_new_area \notin areas
    /\ last.op = "delete_area"
    /\ last.status = 204
    /\ last.ncoords > 0
    /\ coords # <<>>
    /\ \E p \in DOMAIN plants : plants[p].area_id # NULL

\* C22: for every non-empty site-group the clustering driver persists
\* exactly the vertex sequence that generate_polygon returns for the points
\* of the group, so that a coordinate repeated within the group is stored
\* once.
C22_PersistsGeneratePolygonResult ==
    last.op = "script_coords" =>
        /\ VerticesOf(last.area) \in GeneratePolygon(GroupPoints(d_rows, d_group))
        /\ \A i \in 1..Len(VerticesOf(last.area)) :
            \A j \in 1..Len(VerticesOf(last.area)) :
                VerticesOf(last.area)[i] = VerticesOf(last.area)[j] => i = j

(***************************************************************************)
(* Properties of points_in_circle, checked under SpecCircle.               *)
(***************************************************************************)
\* the point of the argument at position i is within the radius
InCircle(i) ==
    LET d == haversine(c_points[i][1], c_points[i][2],
                       c_center[1], c_center[2])
    IN  d # NanMetres /\ ~(d > c_radius)

\* the positions of the argument whose point is within the radius
KeptPositions == {i \in 1..Len(c_points) : InCircle(i)}

\* the k-th smallest of the kept positions
KeptPosition(k) ==
    CHOOSE i \in KeptPositions :
        Cardinality({j \in KeptPositions : j <= i}) = k

\* C21: points_in_circle returns exactly the input points whose distance to
\* the center is <= radius (the boundary included), in their input order,
\* and leaves the input as it was; an empty input gives an empty output.
C21_PointsInCircleIsInclusiveFilter ==
    c_pc = "done" =>
        /\ Len(c_result) = Cardinality(KeptPositions)
        /\ \A k \in 1..Len(c_result) : c_result[k] = c_points[KeptPosition(k)]
        /\ c_points = last.points
        /\ c_points = <<>> => c_result = <<>>

\* the call kept a point that lies exactly on the boundary after dropping a
\* point that lies outside
C21_Witness ==
    /\ c_pc = "done"
    /\ Len(c_points) = 2
    /\ c_radius > 0
    /\ ~InCircle(1)
    /\ haversine(c_points[2][1], c_points[2][2], c_center[1], c_center[2])
        = c_radius
    /\ c_result = <<c_points[2]>>

====
